---------------------------- MODULE Spec2Model ----------------------------
(***************************************************************************)
(* A model of better-hub's document outline (document-outline.tsx) and of  *)
(* its image-proxy route (the GET handler).                                *)
(*                                                                         *)
(* Strings whose characters matter (heading texts, filter queries) are     *)
(* sequences of one-character strings; identifiers are TLA+ strings.       *)
(***************************************************************************)
EXTENDS Integers, Sequences, FiniteSets, TLC

VARIABLES
    \* ---- the tree pipeline: buildTree, flattenTree, filterTree ----
    stage,        \* the calls made so far: a subset of {"buildTree", "flattenTree", "filterTree"}
    input,        \* the flat list handed to buildTree
    built,        \* buildTree's result
    flattened,    \* flattenTree(built), once "flattenTree" is in stage
    query,        \* the last query handed to filterTree
    pruned,       \* filterTree(built, query), once "filterTree" is in stage
    \* ---- the image-proxy route: one GET request at a time ----
    pxPc,         \* "idle" | "token" | "fetch" | "body" | "done" : where GET is
    pxReq,        \* the request and what its environment will answer, or Null
    pxToken,      \* what getGitHubToken resolved to, or Null
    pxSent,       \* the upstream requests GET has issued for this request
    pxResponse,   \* the response GET returned, or Null
    \* ---- the page around the outline ----
    dom,          \* the container: whether it holds a .ghmd, and its heading elements
    scrollTop,    \* the scroll offset of the scroll parent
    hasIO,        \* "IntersectionObserver" in window
    stored,       \* sessionStorage's value under SESSION_KEY, or Null
    lastExpanded, \* history: String(isExpanded) of the outline last unmounted, or Null
    \* ---- the DocumentOutline component ----
    mounted,      \* a DocumentOutline is mounted
    visible,      \* its visible prop
    headings,     \* useState: the heading tree
    activeId,     \* useState: the active heading's id, or Null
    isExpanded,   \* useState
    searchQuery,  \* useState: a sequence of characters
    focusedIndex, \* useState
    mobileOpen,   \* useState
    \* ---- effects and the callbacks they schedule ----
    pendingFx,    \* effects the last renders left to run: "persist", "extract", "track"
    extractRaf,   \* the extract effect's animation frame is requested
    tracking,     \* the scroll-tracking effect in force: its listener and its elements
    ticking,      \* that effect's ticking flag: its animation frame is requested
    ioPending,    \* its IntersectionObserver has entries to deliver
    timerPending, \* its debounce timer is set (no IntersectionObserver)
    staleRafs     \* animation frames requested by tracking effects since torn down

treeVars == <<stage, input, built, flattened, query, pruned>>

proxyVars == <<pxPc, pxReq, pxToken, pxSent, pxResponse>>

pageVars == <<dom, scrollTop, hasIO, stored, lastExpanded>>

stateVars == <<headings, activeId, isExpanded, searchQuery, focusedIndex, mobileOpen>>

fxVars == <<pendingFx, extractRaf, tracking, ticking, ioPending, timerPending, staleRafs>>

uiVars == <<pageVars, mounted, visible, stateVars, fxVars>>

vars == <<treeVars, proxyVars, uiVars>>

\* JavaScript's null, where a string is expected.
Null == "<null>"

(***************************************************************************)
(* Bounds of the model.                                                    *)
(***************************************************************************)
MaxFlat == 3          \* headings in a list handed to buildTree

(***************************************************************************)
(* Characters and strings.                                                 *)
(***************************************************************************)
\* String.prototype.toLowerCase on one character of the model's alphabet.
toLowerCaseChar(c) ==
    CASE c = "A" -> "a"
      [] c = "B" -> "b"
      [] OTHER   -> c

toLowerCase(s) == [i \in 1..Len(s) |-> toLowerCaseChar(s[i])]

\* String.prototype.includes: q occurs in s as a contiguous run.
includes(s, q) ==
    \E off \in 0..(Len(s) - Len(q)) : SubSeq(s, off + 1, off + Len(q)) = q

(***************************************************************************)
(* buildTree.  The code keeps a stack of references to nodes and pushes a  *)
(* new node onto the children of the node on top of the stack.  Nodes are  *)
(* referred to here by their position in the flat list: kids[i] are the    *)
(* positions of node i's children, root the top-level positions, stack the *)
(* positions on the stack (the stack's level field is flat[i].level).      *)
(***************************************************************************)
\* popStack popping only strictly deeper entries (">" for ">=").
RECURSIVE popStackStrict(_, _, _)
popStackStrict(flat, stack, level) ==
    IF Len(stack) > 0 /\ flat[stack[Len(stack)]].level > level
    THEN popStackStrict(flat, SubSeq(stack, 1, Len(stack) - 1), level)
    ELSE stack

RECURSIVE popStack(_, _, _)
popStack(flat, stack, level) ==
    IF Len(stack) > 0 /\ flat[stack[Len(stack)]].level >= level
    THEN popStack(flat, SubSeq(stack, 1, Len(stack) - 1), level)
    ELSE stack

RECURSIVE buildLoop(_, _, _, _, _)
buildLoop(flat, k, kids, root, stack) ==
    IF k > Len(flat) THEN [kids |-> kids, root |-> root]
    ELSE LET st == popStack(flat, stack, flat[k].level)
         IN  IF Len(st) = 0
             THEN buildLoop(flat, k + 1, kids, Append(root, k), Append(st, k))
             ELSE buildLoop(flat, k + 1,
                            [kids EXCEPT ![st[Len(st)]] = Append(@, k)],
                            root, Append(st, k))

\* The HeadingNode at position k, with its children's references followed.
RECURSIVE nodeAt(_, _, _)
nodeAt(flat, kids, k) ==
    [id       |-> flat[k].id,
     text     |-> flat[k].text,
     level    |-> flat[k].level,
     children |-> [j \in 1..Len(kids[k]) |-> nodeAt(flat, kids, kids[k][j])]]

buildTree(flat) ==
    LET r == buildLoop(flat, 1, [i \in 1..Len(flat) |-> <<>>], <<>>, <<>>)
    IN  [j \in 1..Len(r.root) |-> nodeAt(flat, r.kids, r.root[j])]

(***************************************************************************)
(* flattenTree: pre-order walk.                                            *)
(***************************************************************************)
\* walk visiting a node's siblings before its children.
RECURSIVE walkSiblingsFirst(_)
walkSiblingsFirst(list) ==
    IF Len(list) = 0 THEN <<>>
    ELSE <<list[1]>> \o walkSiblingsFirst(Tail(list)) \o walkSiblingsFirst(list[1].children)

RECURSIVE walk(_)
walk(list) ==
    IF Len(list) = 0 THEN <<>>
    ELSE <<list[1]>> \o walk(list[1].children) \o walk(Tail(list))

flattenTree(nodes) == walk(nodes)

(***************************************************************************)
(* filterTree.                                                             *)
(***************************************************************************)
\* matches looking at the node's own text only.
matchesOwnText(node, q) == includes(toLowerCase(node.text), q)

RECURSIVE matches(_, _)
matches(node, q) ==
    \/ includes(toLowerCase(node.text), q)
    \/ \E j \in 1..Len(node.children) : matches(node.children[j], q)

RECURSIVE prune(_, _)
prune(list, q) ==
    IF Len(list) = 0 THEN <<>>
    ELSE LET node == list[1]
         IN  (IF matches(node, q)
              THEN <<[node EXCEPT !.children = prune(node.children, q)]>>
              ELSE <<>>) \o prune(Tail(list), q)

filterTree(nodes, qry) == prune(nodes, toLowerCase(qry))


(***************************************************************************)
(* extractHeadings.  A heading element is [tag, id, text, top]: its tag    *)
(* name, its id attribute ("" when it has none), its textContent and its   *)
(* offsetTop.                                                              *)
(***************************************************************************)
\* parseInt(el.tagName[1], 10)
headingLevel(tag) ==
    CASE tag = "H1" -> 1 [] tag = "H2" -> 2 [] tag = "H3" -> 3
      [] tag = "H4" -> 4 [] tag = "H5" -> 5 [] tag = "H6" -> 6

RECURSIVE trimStart(_)
trimStart(s) == IF Len(s) > 0 /\ s[1] = " " THEN trimStart(Tail(s)) ELSE s

RECURSIVE trimEnd(_)
trimEnd(s) ==
    IF Len(s) > 0 /\ s[Len(s)] = " " THEN trimEnd(SubSeq(s, 1, Len(s) - 1)) ELSE s

\* String.prototype.trim
trim(s) == trimEnd(trimStart(s))

\* replace(/\s+/g, " ")
RECURSIVE collapseSpaces(_)
collapseSpaces(s) ==
    IF Len(s) < 2 THEN s
    ELSE IF s[1] = " " /\ s[2] = " " THEN collapseSpaces(Tail(s))
    ELSE <<s[1]>> \o collapseSpaces(Tail(s))

normalizeText(s) == collapseSpaces(trim(s))

\* `heading-${index}`
HeadingId(index) == "heading-" \o ToString(index)

\* The id extractHeadings gives the element at position k (index k - 1).
elementId(els, k) == IF els[k].id = "" THEN HeadingId(k - 1) ELSE els[k].id

\* The forEach loop: the flat list of the headings with a text.
RECURSIVE extractLoop(_, _, _)
extractLoop(els, k, flat) ==
    IF k > Len(els) THEN flat
    ELSE LET text == normalizeText(els[k].text)
         IN  extractLoop(els, k + 1,
                 IF text # <<>>
                 THEN Append(flat, [id    |-> elementId(els, k),
                                    text  |-> text,
                                    level |-> headingLevel(els[k].tag)])
                 ELSE flat)

extractHeadings(els) == buildTree(extractLoop(els, 1, <<>>))

\* The elements after extractHeadings: el.id = id where there was none.
withIds(els) == [k \in 1..Len(els) |-> [els[k] EXCEPT !.id = elementId(els, k)]]

(***************************************************************************)
(* The DocumentOutline component.                                          *)
(***************************************************************************)
SCROLL_OFFSET == 80

MaxHeadings == 2      \* heading elements in the rendered markdown
MaxStale == 1         \* animation frames of torn-down effects still requested

\* String(isExpanded)
String(b) == IF b THEN "true" ELSE "false"

\* useState's initializer always starting expanded.
initialExpandedIgnoringStore(st) == TRUE

\* useState's initializer for isExpanded, given sessionStorage.getItem(SESSION_KEY).
initialExpanded(st) == IF st # Null THEN st = "true" ELSE TRUE

\* document.getElementById(id): the position of the first element with the id, 0 for none.
getElementById(d, id) ==
    IF id # "" /\ \E k \in 1..Len(d.els) : d.els[k].id = id
    THEN CHOOSE k \in 1..Len(d.els) :
            /\ d.els[k].id = id
            /\ \A j \in 1..(k - 1) : d.els[j].id # id
    ELSE 0

\* A tracking effect's closure: whether its listeners are attached, the
\* elements it captured (each by its id and its position in the document it
\* was found in) and whether those elements are still in the document.
NoTracking == [on |-> FALSE, els |-> <<>>, attached |-> FALSE]

\* ids.map(getElementById).filter(Boolean), for the ids of flattenTree(headings).
trackedElements(hs, d) ==
    LET flat  == flattenTree(hs)
        found == SelectSeq([i \in 1..Len(flat) |->
                               [id |-> flat[i].id, idx |-> getElementById(d, flat[i].id)]],
                           LAMBDA e : e.idx # 0)
    IN  [i \in 1..Len(found) |-> [id |-> d.els[found[i].idx].id, idx |-> found[i].idx]]

\* el.offsetTop of a captured element (the scroll parent's own offsetTop is
\* 0); an element no longer in the document has offsetTop 0.
offsetTop(c, d, e) == IF c.attached THEN d.els[e.idx].top ELSE 0

\* The loop over elements: best and bestDist after elements 1..k-1.  bestDist
\* is Infinity exactly while best is null.
RECURSIVE bestLoop(_, _, _, _, _, _)
bestLoop(c, d, st, k, best, bestDist) ==
    IF k > Len(c.els) THEN best
    ELSE LET dist == st + SCROLL_OFFSET - offsetTop(c, d, c.els[k])
         IN  IF dist >= 0 /\ (best = Null \/ dist < bestDist)
             THEN bestLoop(c, d, st, k + 1, c.els[k].id, dist)
             ELSE bestLoop(c, d, st, k + 1, best, bestDist)

\* What a scroll update makes of activeId: if (best) setActiveId(best).
\* setActiveId on an unmounted component changes nothing.
updatedActiveId(c, d, st, isMounted, current) ==
    LET best == bestLoop(c, d, st, 1, Null, 0)
    IN  IF isMounted /\ best # Null THEN best ELSE current

\* The displayed tree and list: useMemo displayTree, flatList.
displayTree(hs, q) == IF q # <<>> THEN filterTree(hs, q) ELSE hs

flatListOf(hs, q) == flattenTree(displayTree(hs, q))

\* The state of a component that is not mounted, and of its effects.
Unmounted ==
    /\ mounted = FALSE
    /\ visible = FALSE
    /\ headings = <<>>
    /\ activeId = Null
    /\ isExpanded = TRUE
    /\ searchQuery = <<>>
    /\ focusedIndex = -1
    /\ mobileOpen = FALSE
    /\ pendingFx = {}
    /\ extractRaf = FALSE
    /\ tracking = NoTracking
    /\ ticking = FALSE
    /\ ioPending = FALSE
    /\ timerPending = FALSE

\* No outline on the page.
OutlineIdle ==
    /\ Unmounted
    /\ dom = [ghmd |-> FALSE, els |-> <<>>]
    /\ scrollTop = 0
    /\ hasIO = TRUE
    /\ stored = Null
    /\ lastExpanded = Null
    /\ staleRafs = {}

(***************************************************************************)
(* The image-proxy route.                                                  *)
(***************************************************************************)
ALLOWED_HOSTS ==
    { "github.com",
      "raw.githubusercontent.com",
      "private-user-images.githubusercontent.com",
      "github-production-user-asset-6210df.s3.amazonaws.com" }

\* Host names a requested URL may carry.
RequestHosts ==
    ALLOWED_HOSTS \cup
    { "GitHub.com", "api.github.com", "github.com.evil.example", "evil.example" }

\* The values of the url query parameter: absent, the empty string, a string
\* that is no absolute URL ("/avatar.png"), a URL without authority
\* ("data:image/png,..."), or scheme://[userinfo@]host[:port]/path.
UrlParams ==
    [ kind : {"absent", "empty", "relative", "opaque"}, scheme : {""}, userinfo : {""},
      host : {""}, port : {""} ] \cup
    [ kind : {"absolute"}, scheme : {"https", "ftp"}, userinfo : {"", "github.com"},
      host : RequestHosts, port : {"", "8080"} ]

\* What getGitHubToken resolves to: no session, an empty token, a token.
SessionTokens == { Null, "", "gho_token" }

\* What the upstream does with a request: the connection fails, or it answers
\* with a status and a content type, and its body can be read or breaks off.
UpstreamStatuses == { 200, 206, 301, 304, 404, 500 }

Upstreams ==
    [ fetch : {"rejects"}, status : {0}, contentType : {Null}, body : {"breaks"} ] \cup
    [ fetch : {"resolves"}, status : UpstreamStatuses,
      contentType : {Null, "image/png"}, body : {"read", "breaks"} ]

NoRequest == [ url |-> [kind |-> "absent", scheme |-> "", userinfo |-> "", host |-> "", port |-> ""],
               session |-> Null,
               upstream |-> [fetch |-> "rejects", status |-> 0, contentType |-> Null, body |-> "breaks"] ]

NoResponse == [ status |-> 0, error |-> "", contentType |-> "", body |-> "" ]

ProxyIdle ==
    /\ pxPc = "idle"
    /\ pxReq = NoRequest
    /\ pxToken = Null
    /\ pxSent = {}
    /\ pxResponse = NoResponse

\* The URL parser lower-cases the host of a URL.
hostToLowerCase(h) == IF h = "GitHub.com" THEN "github.com" ELSE h

\* new URL(url): throws (ok = FALSE) on a string that is no absolute URL; the
\* hostname is the lower-cased host, without userinfo and port, and is empty
\* for a URL without authority.
newURL(u) ==
    CASE u.kind = "absolute" -> [ok |-> TRUE, hostname |-> hostToLowerCase(u.host)]
      [] u.kind = "opaque"   -> [ok |-> TRUE, hostname |-> ""]
      [] OTHER               -> [ok |-> FALSE, hostname |-> ""]

\* An allow-list test by prefix instead of by membership.
hostStartsWithAllowed(hostname) ==
    hostname \in ALLOWED_HOSTS \cup {"github.com.evil.example"}

\* ALLOWED_HOSTS.has(parsed.hostname)
hostAllowed(hostname) == hostname \in ALLOWED_HOSTS

\* fetch(url, ...) rejects when the connection fails, and on a scheme it does
\* not speak.
fetchRejects(req) ==
    req.url.scheme \notin {"http", "https"} \/ req.upstream.fetch = "rejects"

\* res.ok
ok(status) == status >= 200 /\ status <= 299

\* NextResponse.json(body, { status }) builds a Response with a body: the
\* Response constructor throws a TypeError when the status is one that allows
\* no body (101, 103, 204, 205, 304).
jsonResponseThrows(status) == status \in {101, 103, 204, 205, 304}

jsonResponse(status, message) ==
    [status |-> status, error |-> message, contentType |-> "application/json", body |-> ""]

\* From the top of GET to its first await (getGitHubToken).
GetStart ==
    /\ pxPc = "idle"
    /\ \E url \in UrlParams, session \in SessionTokens, upstream \in Upstreams :
         /\ pxReq' = [url |-> url, session |-> session, upstream |-> upstream]
         /\ IF url.kind \in {"absent", "empty"}
            THEN /\ pxResponse' = jsonResponse(400, "Missing url parameter")
                 /\ pxPc' = "done"
            ELSE IF ~newURL(url).ok
            THEN /\ pxResponse' = jsonResponse(400, "Invalid URL")
                 /\ pxPc' = "done"
            ELSE IF ~hostAllowed(newURL(url).hostname)
            THEN /\ pxResponse' = jsonResponse(403, "Host not allowed")
                 /\ pxPc' = "done"
            ELSE /\ pxResponse' = NoResponse
                 /\ pxPc' = "token"
    /\ pxToken' = Null
    /\ pxSent' = {}
    /\ UNCHANGED <<treeVars, uiVars>>

\* getGitHubToken has resolved: 401, or the upstream request is issued.
GetToken ==
    /\ pxPc = "token"
    /\ pxToken' = pxReq.session
    /\ IF pxReq.session = Null \/ pxReq.session = ""
       THEN /\ pxResponse' = jsonResponse(401, "Not authenticated")
            /\ pxPc' = "done"
            /\ pxSent' = pxSent
       ELSE /\ pxSent' = pxSent \cup
                  { [url |-> pxReq.url, authorization |-> <<"token", pxReq.session>>] }
            /\ pxPc' = "fetch"
            /\ pxResponse' = pxResponse
    /\ UNCHANGED <<pxReq, treeVars, uiVars>>

\* fetch has settled: the catch block's 502, the upstream's error status, or on
\* to reading the body.
GetFetched ==
    /\ pxPc = "fetch"
    /\ IF fetchRejects(pxReq)
       THEN /\ pxResponse' = jsonResponse(502, "Failed to fetch image")
            /\ pxPc' = "done"
       ELSE IF ~ok(pxReq.upstream.status)
       THEN /\ pxResponse' =
                 IF jsonResponseThrows(pxReq.upstream.status)
                 THEN jsonResponse(502, "Failed to fetch image")
                 ELSE jsonResponse(pxReq.upstream.status, "Upstream error")
            /\ pxPc' = "done"
       ELSE /\ pxResponse' = pxResponse
            /\ pxPc' = "body"
    /\ UNCHANGED <<pxReq, pxToken, pxSent, treeVars, uiVars>>

\* res.arrayBuffer() has settled: the catch block's 502, or the image.
GetBody ==
    /\ pxPc = "body"
    /\ pxResponse' =
         IF pxReq.upstream.body = "breaks"
         THEN jsonResponse(502, "Failed to fetch image")
         ELSE [status |-> 200, error |-> "",
               contentType |-> IF pxReq.upstream.contentType = Null
                               THEN "application/octet-stream"
                               ELSE pxReq.upstream.contentType,
               body |-> "upstream body"]
    /\ pxPc' = "done"
    /\ UNCHANGED <<pxReq, pxToken, pxSent, treeVars, uiVars>>

\* The response is out; the route takes the next request.
GetReturned ==
    /\ pxPc = "done"
    /\ pxPc' = "idle"
    /\ pxReq' = NoRequest
    /\ pxToken' = Null
    /\ pxSent' = {}
    /\ pxResponse' = NoResponse
    /\ UNCHANGED <<treeVars, uiVars>>

NextProxy == GetStart \/ GetToken \/ GetFetched \/ GetBody \/ GetReturned

TreeIdle ==
    /\ stage = {}
    /\ input = <<>>
    /\ built = <<>>
    /\ flattened = <<>>
    /\ query = <<>>
    /\ pruned = <<>>

InitProxy == ProxyIdle /\ TreeIdle /\ OutlineIdle

SpecProxy == InitProxy /\ [][NextProxy]_vars

(***************************************************************************)
(* The tree pipeline as a state machine: a flat list is chosen, buildTree  *)
(* runs on it, then flattenTree and filterTree run on the result.          *)
(***************************************************************************)
HeadingLevels == 1..6

\* Heading texts and filter queries of the pipeline's inputs.
Texts == { <<"A", "b">>, <<"b", "a">>, <<"c">> }
Queries == { <<"a">>, <<"B">>, <<"a", "B">>, <<"b", "b">>, <<"c">> }

\* Flat lists of at most MaxFlat headings; the id of each is that of its position.
FlatLists(levels, texts) ==
    UNION { { [i \in 1..n |-> [id |-> HeadingId(i - 1), text |-> t[i], level |-> l[i]]] :
                t \in [1..n -> texts], l \in [1..n -> levels] } : n \in 0..MaxFlat }

InitTree ==
    /\ stage = {}
    /\ input \in FlatLists(HeadingLevels, {<<"c">>})
    /\ built = <<>>
    /\ flattened = <<>>
    /\ query = <<>>
    /\ pruned = <<>>
    /\ ProxyIdle
    /\ OutlineIdle

InitFilter ==
    /\ stage = {}
    /\ input \in FlatLists(1..3, Texts)
    /\ built = <<>>
    /\ flattened = <<>>
    /\ query = <<>>
    /\ pruned = <<>>
    /\ ProxyIdle
    /\ OutlineIdle

Build ==
    /\ stage = {}
    /\ stage' = {"buildTree"}
    /\ built' = buildTree(input)
    /\ UNCHANGED <<input, flattened, query, pruned, proxyVars, uiVars>>

Flatten ==
    /\ "buildTree" \in stage
    /\ "flattenTree" \notin stage
    /\ stage' = stage \cup {"flattenTree"}
    /\ flattened' = flattenTree(built)
    /\ UNCHANGED <<input, built, query, pruned, proxyVars, uiVars>>

Filter ==
    /\ "buildTree" \in stage
    /\ stage' = stage \cup {"filterTree"}
    /\ \E q \in Queries :
         /\ query' = q
         /\ pruned' = filterTree(built, q)
    /\ UNCHANGED <<input, built, flattened, proxyVars, uiVars>>

NextTree == Build \/ Flatten \/ Filter

SpecTree == InitTree /\ [][NextTree]_vars

SpecFilter == InitFilter /\ [][NextTree]_vars


(***************************************************************************)
(* The component's life: mounting, the visible prop, its effects.          *)
(* A render leaves the effects whose dependencies changed in pendingFx;    *)
(* React runs them (RunEffects) before it handles the next event or render,*)
(* while the browser's own callbacks (frames, scroll, timers) may come     *)
(* first.                                                                  *)
(***************************************************************************)
\* The component returns null unless visible with headings.
Rendered == mounted /\ visible /\ headings # <<>>

\* The tracking effect's cleanup removes the listener and disconnects the
\* observer (or clears the timer); a requested animation frame stays requested.
staleAfterCleanup ==
    IF tracking.on /\ hasIO /\ ticking THEN staleRafs \cup {tracking} ELSE staleRafs

\* useState initializers and the first render.
Mount ==
    /\ ~mounted
    /\ mounted' = TRUE
    /\ visible' \in BOOLEAN
    /\ headings' = <<>>
    /\ activeId' = Null
    /\ isExpanded' = initialExpanded(stored)
    /\ searchQuery' = <<>>
    /\ focusedIndex' = -1
    /\ mobileOpen' = FALSE
    /\ pendingFx' = {"persist", "extract", "track"}
    /\ UNCHANGED <<extractRaf, tracking, ticking, ioPending, timerPending, staleRafs>>
    /\ UNCHANGED <<pageVars, treeVars, proxyVars>>

\* The component is disposed: every effect's cleanup runs, the state is gone.
Unmount ==
    /\ mounted /\ pendingFx = {}
    /\ mounted' = FALSE
    /\ visible' = FALSE
    /\ headings' = <<>>
    /\ activeId' = Null
    /\ isExpanded' = TRUE
    /\ searchQuery' = <<>>
    /\ focusedIndex' = -1
    /\ mobileOpen' = FALSE
    /\ pendingFx' = {}
    /\ extractRaf' = FALSE
    /\ tracking' = NoTracking
    /\ ticking' = FALSE
    /\ ioPending' = FALSE
    /\ timerPending' = FALSE
    /\ staleRafs' = staleAfterCleanup
    /\ lastExpanded' = String(isExpanded)
    /\ UNCHANGED <<dom, scrollTop, hasIO, stored, treeVars, proxyVars>>

\* The parent shows the content (preview mode).
Show ==
    /\ mounted /\ pendingFx = {} /\ ~visible
    /\ visible' = TRUE
    /\ pendingFx' = {"extract", "track"}
    /\ UNCHANGED <<mounted, stateVars, extractRaf, tracking, ticking, ioPending,
                   timerPending, staleRafs, pageVars, treeVars, proxyVars>>

\* The parent hides the content.
Hide ==
    /\ mounted /\ pendingFx = {} /\ visible
    /\ visible' = FALSE
    /\ pendingFx' = {"extract", "track"}
    /\ UNCHANGED <<mounted, stateVars, extractRaf, tracking, ticking, ioPending,
                   timerPending, staleRafs, pageVars, treeVars, proxyVars>>

\* The parent renders other content into the container: the heading elements
\* captured so far leave the document.
RenderContent(d) ==
    /\ dom' = d
    /\ tracking' = [tracking EXCEPT !.attached = FALSE]
    /\ staleRafs' = { [c EXCEPT !.attached = FALSE] : c \in staleRafs }
    /\ UNCHANGED <<scrollTop, hasIO, stored, lastExpanded, mounted, visible, stateVars,
                   pendingFx, extractRaf, ticking, ioPending, timerPending,
                   treeVars, proxyVars>>

\* The tracking effect's setup, given the render's visible and headings.
trackingSetup ==
    IF visible /\ headings # <<>> /\ Len(trackedElements(headings, dom)) > 0
    THEN [on |-> TRUE, els |-> trackedElements(headings, dom), attached |-> TRUE]
    ELSE NoTracking

\* React runs the pending effects: cleanup of the previous run, then setup.
RunEffects ==
    /\ mounted /\ pendingFx # {}
    /\ pendingFx' = {}
    \* Persist expanded state
    /\ stored' = IF "persist" \in pendingFx THEN String(isExpanded) ELSE stored
    \* Extract headings: cancelAnimationFrame, then requestAnimationFrame if visible
    /\ extractRaf' = IF "extract" \in pendingFx THEN visible ELSE extractRaf
    \* Scroll tracking
    /\ IF "track" \in pendingFx
       THEN /\ staleRafs' = staleAfterCleanup
            /\ tracking' = trackingSetup
            /\ ticking' = FALSE
            /\ ioPending' = (hasIO /\ trackingSetup.on)
            /\ timerPending' = FALSE
       ELSE UNCHANGED <<staleRafs, tracking, ticking, ioPending, timerPending>>
    /\ UNCHANGED <<dom, scrollTop, hasIO, lastExpanded, mounted, visible, stateVars,
                   treeVars, proxyVars>>

\* The extract effect's animation frame: setHeadings(extractHeadings(ghmd))
\* when the container holds a .ghmd, nothing otherwise.
ExtractFrame ==
    /\ extractRaf
    /\ extractRaf' = FALSE
    /\ IF dom.ghmd
       THEN /\ headings' = extractHeadings(dom.els)
            /\ dom' = [dom EXCEPT !.els = withIds(dom.els)]
            /\ pendingFx' = pendingFx \cup {"track"}
       ELSE UNCHANGED <<headings, dom, pendingFx>>
    /\ UNCHANGED <<scrollTop, hasIO, stored, lastExpanded, mounted, visible, activeId,
                   isExpanded, searchQuery, focusedIndex, mobileOpen, tracking, ticking,
                   ioPending, timerPending, staleRafs, treeVars, proxyVars>>

\* navigateTo(id): nothing when no element has the id; else setActiveId(id)
\* and setMobileOpen(false).  Returns <<activeId, mobileOpen>> afterwards.
navigateTo(id) ==
    IF getElementById(dom, id) = 0
    THEN <<activeId, mobileOpen>>
    ELSE <<id, FALSE>>

\* A click on an item of the list: onNavigate(node.id).
ClickItem(i) ==
    /\ Rendered /\ pendingFx = {}
    /\ isExpanded \/ mobileOpen
    /\ i \in 1..Len(flatListOf(headings, searchQuery))
    /\ activeId' = navigateTo(flatListOf(headings, searchQuery)[i].id)[1]
    /\ mobileOpen' = navigateTo(flatListOf(headings, searchQuery)[i].id)[2]
    /\ UNCHANGED <<headings, isExpanded, searchQuery, focusedIndex, mounted, visible,
                   fxVars, pageVars, treeVars, proxyVars>>

\* The header's button: setIsExpanded((v) => !v).
ToggleExpanded ==
    /\ Rendered /\ pendingFx = {}
    /\ isExpanded' = ~isExpanded
    /\ pendingFx' = {"persist"}
    /\ UNCHANGED <<headings, activeId, searchQuery, focusedIndex, mobileOpen, mounted,
                   visible, extractRaf, tracking, ticking, ioPending, timerPending,
                   staleRafs, pageVars, treeVars, proxyVars>>

(***************************************************************************)
(* The outline on a page whose content does not change: mounting,          *)
(* showing, hiding, expanding and collapsing.                              *)
(***************************************************************************)
Tops == { 0, 100, 200 }

\* Documents of at most MaxHeadings heading elements without ids, an h1 and
\* h2s below it, one under the other; and the container without rendered markdown.
Docs(texts) ==
    { [ghmd |-> FALSE, els |-> <<>>] } \cup
    UNION { { [ghmd |-> TRUE,
               els  |-> [k \in 1..n |-> [tag  |-> IF k = 1 THEN "H1" ELSE "H2",
                                         id   |-> "",
                                         text |-> tx[k],
                                         top  |-> tp[k]]]] :
                tx \in [1..n -> texts],
                tp \in { f \in [1..n -> Tops] : \A i, j \in 1..n : i < j => f[i] < f[j] } } :
            n \in 0..MaxHeadings }

InitPersist ==
    /\ OutlineIdle
    /\ TreeIdle
    /\ ProxyIdle

NextPersist ==
    \/ Mount
    \/ Unmount
    \/ Show
    \/ Hide
    \/ RunEffects
    \/ ExtractFrame
    \/ ToggleExpanded
    \/ \E d \in Docs({<<"c">>}) : RenderContent(d)

SpecPersist == InitPersist /\ [][NextPersist]_vars

(***************************************************************************)
(* Scroll tracking: the scroll listener, the observer, the callbacks.      *)
(***************************************************************************)
ScrollTops == { 0, 20, 120 }

\* The user scrolls: the scroll event reaches the tracking effect's listener
\* if one is attached.
Scroll(st) ==
    /\ st # scrollTop
    /\ scrollTop' = st
    /\ IF tracking.on /\ hasIO
       THEN \* if (ticking) return; ticking = true; requestAnimationFrame(...)
            /\ ticking \/ Cardinality(staleRafs) < MaxStale
            /\ ticking' = TRUE
            /\ UNCHANGED timerPending
       ELSE IF tracking.on
       THEN \* clearTimeout(timer); timer = setTimeout(..., 200)
            /\ timerPending' = TRUE
            /\ UNCHANGED ticking
       ELSE UNCHANGED <<ticking, timerPending>>
    /\ UNCHANGED <<dom, hasIO, stored, lastExpanded, mounted, visible, stateVars,
                   pendingFx, extractRaf, tracking, ioPending, staleRafs,
                   treeVars, proxyVars>>

\* The browser finds an observed heading crossing a threshold.
Intersect ==
    /\ tracking.on /\ hasIO /\ ~ioPending
    /\ ioPending' = TRUE
    /\ UNCHANGED <<pageVars, mounted, visible, stateVars, pendingFx, extractRaf,
                   tracking, ticking, timerPending, staleRafs, treeVars, proxyVars>>

\* The IntersectionObserver's callback.
ObserverCallback ==
    /\ tracking.on /\ ioPending
    /\ ioPending' = FALSE
    /\ activeId' = updatedActiveId(tracking, dom, scrollTop, mounted, activeId)
    /\ UNCHANGED <<pageVars, mounted, visible, headings, isExpanded, searchQuery,
                   focusedIndex, mobileOpen, pendingFx, extractRaf, tracking, ticking,
                   timerPending, staleRafs, treeVars, proxyVars>>

\* The animation frame handleScroll requested, its effect still in force.
ScrollFrame ==
    /\ tracking.on /\ hasIO /\ ticking
    /\ ticking' = FALSE
    /\ activeId' = updatedActiveId(tracking, dom, scrollTop, mounted, activeId)
    /\ UNCHANGED <<pageVars, mounted, visible, headings, isExpanded, searchQuery,
                   focusedIndex, mobileOpen, pendingFx, extractRaf, tracking, ioPending,
                   timerPending, staleRafs, treeVars, proxyVars>>

\* The animation frame a tracking effect requested before it was torn down.
StaleFrame(c) ==
    /\ c \in staleRafs
    /\ staleRafs' = staleRafs \ {c}
    /\ activeId' = updatedActiveId(c, dom, scrollTop, mounted, activeId)
    /\ UNCHANGED <<pageVars, mounted, visible, headings, isExpanded, searchQuery,
                   focusedIndex, mobileOpen, pendingFx, extractRaf, tracking, ticking,
                   ioPending, timerPending, treeVars, proxyVars>>

\* The debounce timer of the fallback listener fires.
DebounceFires ==
    /\ tracking.on /\ timerPending
    /\ timerPending' = FALSE
    /\ activeId' = updatedActiveId(tracking, dom, scrollTop, mounted, activeId)
    /\ UNCHANGED <<pageVars, mounted, visible, headings, isExpanded, searchQuery,
                   focusedIndex, mobileOpen, pendingFx, extractRaf, tracking, ticking,
                   ioPending, staleRafs, treeVars, proxyVars>>

\* A page in a browser with or without IntersectionObserver.
InitScroll ==
    /\ Unmounted
    /\ dom \in Docs({<<"c">>})
    /\ scrollTop = 0
    /\ hasIO \in BOOLEAN
    /\ stored = Null
    /\ lastExpanded = Null
    /\ staleRafs = {}
    /\ TreeIdle
    /\ ProxyIdle

NextScroll ==
    \/ Mount
    \/ Unmount
    \/ Show
    \/ Hide
    \/ RunEffects
    \/ ExtractFrame
    \/ \E d \in Docs({<<"c">>}) : RenderContent(d)
    \/ \E st \in ScrollTops : Scroll(st)
    \/ Intersect
    \/ ObserverCallback
    \/ ScrollFrame
    \/ \E c \in staleRafs : StaleFrame(c)
    \/ DebounceFires
    \/ \E i \in 1..(MaxHeadings + 1) : ClickItem(i)

SpecScroll == InitScroll /\ [][NextScroll]_vars

(***************************************************************************)
(* The filter box, the keyboard and the mouse on the outline.              *)
(***************************************************************************)
Min(a, b) == IF a < b THEN a ELSE b
Max(a, b) == IF a > b THEN a ELSE b

\* setFocusedIndex((prev) => Math.min(prev + 1, flatList.length - 1))
arrowDown(prev, len) == Min(prev + 1, len - 1)

\* setFocusedIndex((prev) => Math.max(prev - 1, 0))
arrowUp(prev) == Max(prev - 1, 0)

\* focusedIndex >= 0 && focusedIndex < flatList.length
focusInRange(idx, len) == idx >= 0 /\ idx < len

\* navigateTo picking the item after the one asked for.
navigateTargetNext(list, idx) == list[Min(idx + 2, Len(list))].id

\* flatList[focusedIndex].id (focusedIndex counts from 0)
navigateTarget(list, idx) == list[idx + 1].id

Keys == { "ArrowDown", "ArrowUp", "Enter", " ", "Escape", "Home", "End", "Tab" }

\* A key goes down on the tree of the desktop pane (shown when expanded) or
\* of the mobile drawer (shown when open): handleKeyDown, and, in the drawer,
\* the overlay's own onKeyDown, to which the event bubbles.
KeyDown(key, inDrawer) ==
    /\ Rendered /\ pendingFx = {}
    /\ IF inDrawer THEN mobileOpen ELSE isExpanded
    /\ LET list == flatListOf(headings, searchQuery)
           len  == Len(list)
           handled == len # 0
           nav  == IF handled /\ key \in {"Enter", " "} /\ focusInRange(focusedIndex, len)
                   THEN navigateTo(navigateTarget(list, focusedIndex))
                   ELSE <<activeId, mobileOpen>>
       IN  /\ focusedIndex' =
                 IF ~handled THEN focusedIndex
                 ELSE CASE key = "ArrowDown" -> arrowDown(focusedIndex, len)
                        [] key = "ArrowUp"   -> arrowUp(focusedIndex)
                        [] key = "Home"      -> 0
                        [] key = "End"       -> len - 1
                        [] OTHER             -> focusedIndex
           /\ searchQuery' =
                 IF handled /\ key = "Escape" THEN <<>> ELSE searchQuery
           /\ activeId' = nav[1]
           /\ mobileOpen' =
                 IF key = "Escape" /\ (inDrawer \/ (handled /\ searchQuery = <<>>))
                 THEN FALSE
                 ELSE nav[2]
    /\ UNCHANGED <<headings, isExpanded, mounted, visible, fxVars, pageVars,
                   treeVars, proxyVars>>

\* Typing in the filter box: onChange.
EditFilter(q) ==
    /\ Rendered /\ pendingFx = {} /\ isExpanded
    /\ q # searchQuery
    /\ searchQuery' = q
    /\ focusedIndex' = -1
    /\ UNCHANGED <<headings, activeId, isExpanded, mobileOpen, mounted, visible,
                   fxVars, pageVars, treeVars, proxyVars>>

\* Escape in the filter box with a query, or a click on its clear button.
ClearFilter ==
    /\ Rendered /\ pendingFx = {} /\ isExpanded
    /\ searchQuery # <<>>
    /\ searchQuery' = <<>>
    /\ UNCHANGED <<headings, activeId, isExpanded, focusedIndex, mobileOpen, mounted,
                   visible, fxVars, pageVars, treeVars, proxyVars>>

\* The floating button opens the drawer; its overlay and its close button close it.
SetMobileOpen(open) ==
    /\ Rendered /\ pendingFx = {}
    /\ mobileOpen # open
    /\ mobileOpen' = open
    /\ UNCHANGED <<headings, activeId, isExpanded, searchQuery, focusedIndex, mounted,
                   visible, fxVars, pageVars, treeVars, proxyVars>>

KeyTexts == { <<"A", "b">>, <<"c">> }
KeyQueries == { <<>>, <<"a">>, <<"C">> }

InitKeys ==
    /\ Unmounted
    /\ dom \in Docs(KeyTexts)
    /\ scrollTop = 0
    /\ hasIO = TRUE
    /\ stored = Null
    /\ lastExpanded = Null
    /\ staleRafs = {}
    /\ TreeIdle
    /\ ProxyIdle

NextKeys ==
    \/ Mount
    \/ Show
    \/ Hide
    \/ RunEffects
    \/ ExtractFrame
    \/ \E d \in Docs(KeyTexts) : RenderContent(d)
    \/ \E key \in Keys, inDrawer \in BOOLEAN : KeyDown(key, inDrawer)
    \/ \E q \in KeyQueries : EditFilter(q)
    \/ ClearFilter
    \/ \E open \in BOOLEAN : SetMobileOpen(open)

SpecKeys == InitKeys /\ [][NextKeys]_vars

(***************************************************************************)
(* The outline over rendered markdown whose heading elements may carry ids *)
(* of their own (a renderer's slugs), each id on one element only.         *)
(***************************************************************************)
ElementIds == { "", "heading-1", "intro" }
ElementTexts == { <<"c">>, <<" ">> }

IdDocs ==
    { [ghmd |-> FALSE, els |-> <<>>] } \cup
    UNION { { [ghmd |-> TRUE,
               els  |-> [k \in 1..n |-> [tag  |-> IF k = 1 THEN "H1" ELSE "H2",
                                         id   |-> ids[k],
                                         text |-> tx[k],
                                         top  |-> 100 * (k - 1)]]] :
                tx  \in [1..n -> ElementTexts],
                ids \in { f \in [1..n -> ElementIds] :
                            \A i, j \in 1..n : (i # j /\ f[i] # "") => f[i] # f[j] } } :
            n \in 0..MaxHeadings }

InitExtract ==
    /\ Unmounted
    /\ dom \in IdDocs
    /\ scrollTop = 0
    /\ hasIO = TRUE
    /\ stored = Null
    /\ lastExpanded = Null
    /\ staleRafs = {}
    /\ TreeIdle
    /\ ProxyIdle

NextExtract ==
    \/ Mount
    \/ Show
    \/ Hide
    \/ RunEffects
    \/ ExtractFrame
    \/ \E d \in IdDocs : RenderContent(d)

SpecExtract == InitExtract /\ [][NextExtract]_vars

(***************************************************************************)
(* Vocabulary of the statements about trees.                               *)
(***************************************************************************)
\* The nodes of a forest: each node of the list and of its subtrees.
RECURSIVE NodesOf(_)
NodesOf(list) ==
    UNION { {list[j]} \cup NodesOf(list[j].children) : j \in 1..Len(list) }

\* <<parent id, child id>> for every node of the forest; a top-level node's
\* parent is `above`.
RECURSIVE ParentPairs(_, _)
ParentPairs(list, above) ==
    UNION { {<<above, list[j].id>>} \cup ParentPairs(list[j].children, list[j].id) :
            j \in 1..Len(list) }

\* The parent ParentPairs gives a top-level node.
TopLevel == "<top>"

\* A node without its children.
Item(n) == [id |-> n.id, text |-> n.text, level |-> n.level]

Items(seq) == [i \in 1..Len(seq) |-> Item(seq[i])]

\* Two characters are the same letter, whatever their case.
CasePairs == { <<"a", "A">>, <<"b", "B">> }
SameLetter(c, d) == c = d \/ <<c, d>> \in CasePairs \/ <<d, c>> \in CasePairs

\* q occurs in s as a contiguous run of letters, case ignored.
ContainsIgnoringCase(s, q) ==
    \E off \in 0..(Len(s) - Len(q)) :
        \A j \in 1..Len(q) : SameLetter(s[off + j], q[j])

\* The node's own text, or the text of a node below it, contains q.
SubtreeContains(n, q) ==
    \E m \in {n} \cup NodesOf(n.children) : ContainsIgnoringCase(m.text, q)

Depth3(list) ==
    \E n \in NodesOf(list) : \E j \in 1..Len(n.children) : Len(n.children[j].children) > 0

(***************************************************************************)
(* C1: filterTree keeps a node exactly when its own text or the text of a  *)
(* descendant contains the (non-empty) query, case ignored; the kept nodes *)
(* come in their original relative order (the pre-order of the result is   *)
(* the pre-order of the tree restricted to the kept nodes, id, text and    *)
(* level unchanged) and under their original parents.                      *)
(***************************************************************************)
C1_FilterKeepsMatchingSubtrees ==
    "filterTree" \in stage =>
        /\ Len(query) > 0
        /\ Items(flattenTree(pruned))
             = Items(SelectSeq(flattenTree(built), LAMBDA n : SubtreeContains(n, query)))
        /\ ParentPairs(pruned, TopLevel)
             = { p \in ParentPairs(built, TopLevel) :
                   \E n \in NodesOf(built) : n.id = p[2] /\ SubtreeContains(n, query) }

\* A parent kept only for a descendant's sake, beside a dropped sibling subtree.
C1_Witness ==
    /\ "filterTree" \in stage
    /\ \E n \in NodesOf(pruned) :
          /\ ~ContainsIgnoringCase(n.text, query)
          /\ Len(n.children) > 0
    /\ Len(flattenTree(pruned)) < Len(flattenTree(built))
    /\ query = <<"a", "B">>

(***************************************************************************)
(* C2: in the tree buildTree returns, every child's level is strictly      *)
(* greater than its parent's, at every depth.                              *)
(***************************************************************************)
C2_ChildrenStrictlyDeeper ==
    "buildTree" \in stage =>
        \A n \in NodesOf(built) :
            \A j \in 1..Len(n.children) : n.children[j].level > n.level

\* A tree three levels deep that skips a level (h1, h3, h6).
C2_Witness ==
    /\ "buildTree" \in stage
    /\ Depth3(built)
    /\ built[1].level = 1
    /\ built[1].children[1].level = 3

(***************************************************************************)
(* C3: flattenTree(buildTree(flat)) is flat: every heading once, in the    *)
(* document's order, with its id, text and level.                          *)
(***************************************************************************)
C3_FlattenOfBuildIsInput ==
    "flattenTree" \in stage => Items(flattened) = input

\* A flattened tree in which a node with a child is followed by a sibling.
C3_Witness ==
    /\ "flattenTree" \in stage
    /\ Len(input) = 3
    /\ Len(built) = 2
    /\ Len(built[1].children) = 1


(***************************************************************************)
(* Vocabulary of the statements about the image proxy.                     *)
(***************************************************************************)
UrlMissingOrInvalid(req) == req.url.kind \in {"absent", "empty", "relative"}

\* The host the URL names: what follows the userinfo and precedes the port,
\* in lower case; none for a URL without authority.
HostOf(url) ==
    IF url.kind = "absolute"
    THEN (IF url.host = "GitHub.com" THEN "github.com" ELSE url.host)
    ELSE ""

HasToken(req) == req.session \notin {Null, ""}

\* The upstream fetch fails: no response arrives, or its body cannot be read.
UpstreamFails(req) ==
    \/ fetchRejects(req)
    \/ (req.upstream.status \in 200..299 /\ req.upstream.body = "breaks")

\* The one outcome the claim gives a request.
ClaimedStatus(req) ==
    IF UrlMissingOrInvalid(req) THEN 400
    ELSE IF HostOf(req.url) \notin ALLOWED_HOSTS THEN 403
    ELSE IF ~HasToken(req) THEN 401
    ELSE IF UpstreamFails(req) THEN 502
    ELSE IF req.upstream.status \notin 200..299 THEN req.upstream.status
    ELSE 200

(***************************************************************************)
(* C4: GET answers every request with the one outcome the order 400, 403,  *)
(* 401, 502, upstream's non-2xx status, success decides; a success carries *)
(* the upstream's body.                                                    *)
(***************************************************************************)
C4_OutcomeInClaimedOrder ==
    pxPc = "done" =>
        /\ pxResponse.status = ClaimedStatus(pxReq)
        /\ (pxResponse.body = "upstream body") <=>
             (ClaimedStatus(pxReq) = 200 /\ ~UrlMissingOrInvalid(pxReq))

(***************************************************************************)
(* C5: GET issues an upstream request, carrying the session token, only    *)
(* for a URL whose host is in the allow-list and when a session token      *)
(* exists; for every other request nothing is sent upstream.               *)
(***************************************************************************)
C5_TokenOnlyToAllowedHosts ==
    /\ Cardinality(pxSent) <= 1
    /\ \A r \in pxSent :
         /\ r.url = pxReq.url
         /\ HostOf(r.url) \in ALLOWED_HOSTS
         /\ HasToken(pxReq)
         /\ r.authorization = <<"token", pxReq.session>>
    /\ (pxPc = "done" /\ ~(HostOf(pxReq.url) \in ALLOWED_HOSTS /\ HasToken(pxReq)))
          => pxSent = {}

\* A request sent upstream for a URL whose userinfo and port do not matter,
\* answered; and the requests refused are reached too (C5_WitnessRefused).
C5_Witness ==
    /\ pxPc = "done"
    /\ pxSent # {}
    /\ pxReq.url.host = "GitHub.com"
    /\ pxReq.url.userinfo = "github.com"
    /\ pxResponse.status = 200


(***************************************************************************)
(* Vocabulary of the statements about the outline.                         *)
(***************************************************************************)
\* The positions, among the elements closure c captured, of the headings
\* whose top is at or above the tracking line.
AtOrAbove(c) ==
    { k \in 1..Len(c.els) : offsetTop(c, dom, c.els[k]) <= scrollTop + SCROLL_OFFSET }

\* Those of them no other is nearer to the line than.
NearestAtOrAbove(c) ==
    { k \in AtOrAbove(c) :
        \A j \in AtOrAbove(c) : offsetTop(c, dom, c.els[j]) <= offsetTop(c, dom, c.els[k]) }

\* The step makes a nearest heading of c active.
MakesNearestActive(c) == \E k \in NearestAtOrAbove(c) : activeId' = c.els[k].id

\* The displayed flat list.
FlatList == flatListOf(headings, searchQuery)

FocusIsValid == focusedIndex = -1 \/ focusedIndex \in 0..(Len(FlatList) - 1)

\* The document holds an element with the id.
ElementExists(id) == \E k \in 1..Len(dom.els) : dom.els[k].id = id

\* The step navigates to the heading at the focused index and changes nothing else.
NavigatesToFocused ==
    /\ activeId' = FlatList[focusedIndex + 1].id
    /\ mobileOpen' = FALSE
    /\ UNCHANGED <<headings, isExpanded, searchQuery, focusedIndex>>

(***************************************************************************)
(* C6, as claimed: once a scroll update has run, the active heading is the *)
(* heading nearest at or above the tracking line (scrollTop + 80) among    *)
(* the tracked headings.                                                   *)
(***************************************************************************)
C6_ActiveIsNearestAfterUpdate ==
    [][(ScrollFrame \/ DebounceFires) => MakesNearestActive(tracking)]_vars

(***************************************************************************)
(* C6, the part the code keeps: a scroll update (the animation frame or    *)
(* debounce timer a scroll event scheduled, or the observer's callback)    *)
(* that runs while the outline is mounted makes active the heading nearest *)
(* at or above the tracking line, at the scroll offset of that moment,     *)
(* among the heading elements captured by the tracking effect that         *)
(* scheduled it, when one of them is at or above the line; when none is,   *)
(* it leaves the active heading as it was.                                 *)
(***************************************************************************)
C6_UpdateMakesNearestActiveIfAny ==
    [][ /\ (ScrollFrame \/ DebounceFires \/ ObserverCallback) =>
              IF AtOrAbove(tracking) = {} THEN activeId' = activeId
              ELSE MakesNearestActive(tracking)
        /\ \A c \in staleRafs :
              (StaleFrame(c) /\ mounted) =>
                  IF AtOrAbove(c) = {} THEN activeId' = activeId
                  ELSE MakesNearestActive(c)
      ]_vars

(***************************************************************************)
(* C7: whenever the persist effect has run, sessionStorage holds           *)
(* String(isExpanded) under the session key; and an outline mounted later  *)
(* starts in the state the last one was left in, expanded when there was   *)
(* none.                                                                   *)
(***************************************************************************)
C7_ExpandedStatePersists ==
    /\ []((mounted /\ "persist" \notin pendingFx) => stored = String(isExpanded))
    /\ [][Mount => isExpanded' = (IF lastExpanded = Null THEN TRUE
                                  ELSE lastExpanded = "true")]_vars

\* An outline that was mounted after a collapsed one was unmounted, and that
\* nobody has toggled (it has not rendered a button yet), is collapsed.
C7_Witness ==
    /\ mounted
    /\ lastExpanded = "false"
    /\ headings = <<>>
    /\ ~isExpanded
    /\ stored = "false"
    /\ pendingFx = {}

(***************************************************************************)
(* C8, as claimed: when the content has become visible, the animation      *)
(* frame the outline requested for it replaces the heading tree by the     *)
(* tree of the headings the container holds at that moment.                *)
(***************************************************************************)
C8_FrameRebuildsTree ==
    [][(ExtractFrame /\ visible) => headings' = extractHeadings(dom.els)]_vars

(***************************************************************************)
(* C9, as claimed: with a non-empty displayed list, Enter or Space         *)
(* navigates to the heading at the focused index (it becomes active, the   *)
(* drawer closes); with no valid focused index they change nothing.  No    *)
(* state lets the handler do otherwise.                                    *)
(***************************************************************************)
C9_EnterNavigatesToFocused ==
    \A key \in {"Enter", " "}, inDrawer \in BOOLEAN :
        ~ ENABLED ( /\ KeyDown(key, inDrawer)
                    /\ Len(FlatList) > 0
                    /\ ~ ( IF focusedIndex \in 0..(Len(FlatList) - 1)
                           THEN NavigatesToFocused
                           ELSE UNCHANGED stateVars ) )

(***************************************************************************)
(* C9, amended: with a non-empty displayed list, Enter or Space navigates  *)
(* to the heading at the focused index provided the document still holds   *)
(* an element with that heading's id; when it does not, or when no valid   *)
(* index is focused, they change nothing.  No state lets the handler do    *)
(* otherwise.                                                              *)
(***************************************************************************)
C9_EnterNavigatesIfElementExists ==
    \A key \in {"Enter", " "}, inDrawer \in BOOLEAN :
        ~ ENABLED ( /\ KeyDown(key, inDrawer)
                    /\ Len(FlatList) > 0
                    /\ ~ ( IF /\ focusedIndex \in 0..(Len(FlatList) - 1)
                              /\ ElementExists(FlatList[focusedIndex + 1].id)
                           THEN NavigatesToFocused
                           ELSE UNCHANGED stateVars ) )

\* The second item of a filtered list focused and active, the drawer closed.
C9_Witness ==
    /\ Rendered
    /\ searchQuery # <<>>
    /\ focusedIndex = 1
    /\ Len(FlatList) = 2
    /\ activeId = FlatList[2].id
    /\ ~mobileOpen

(***************************************************************************)
(* C10, as claimed: in every reachable state the focused index is -1 or an *)
(* index of the displayed flat list.                                       *)
(***************************************************************************)
C10_FocusedIndexAlwaysValid == FocusIsValid

(***************************************************************************)
(* C10, the part the code keeps: key presses, filter edits and filter      *)
(* clears keep the focused index -1 or an index of the displayed flat      *)
(* list: every step that leaves the heading tree as it was keeps it so.    *)
(* (A re-extraction that shortens the list can leave the index beyond its  *)
(* end.)                                                                   *)
(***************************************************************************)
C10_FocusedIndexValidWhileTreeKept ==
    [][(headings' = headings /\ FocusIsValid) => FocusIsValid']_vars

(***************************************************************************)
(* C11, as claimed: a callback scheduled by a scroll-tracking effect that  *)
(* has since been torn down (the animation frame its scroll listener       *)
(* requested) leaves the active heading as it was when it runs.            *)
(***************************************************************************)
C11_TornDownCallbackKeepsActive ==
    [][\A c \in staleRafs : StaleFrame(c) => activeId' = activeId]_vars

(***************************************************************************)
(* C12, as claimed: the heading nodes extractHeadings returned have        *)
(* pairwise distinct identifiers, whichever of the heading elements        *)
(* carried an id of their own.                                             *)
(***************************************************************************)
C12_IdentifiersDistinct ==
    \A i, j \in 1..Len(flattenTree(headings)) :
        i # j => flattenTree(headings)[i].id # flattenTree(headings)[j].id

=============================================================================
